---- MODULE Spec2Model ----
(***************************************************************************)
(* Token lifecycle of the remote MCP server: src/src/utils/auth_middleware *)
(* (TokenManager, HTTPAuthMiddleware, MCPAuthDependency and the three      *)
(* module-level singletons).                                               *)
(*                                                                         *)
(* Every coroutine is a request; it runs atomically from one suspension    *)
(* point (an awaited httpx POST) to the next, as the asyncio event loop    *)
(* runs it.  The clock moves only between such atomic sections.            *)
(***************************************************************************)
EXTENDS Integers, Sequences, FiniteSets, TLC

\* ------------------------------------------------------------------ bounds
MaxTicks == 1
MaxCalls == 3

\* ------------------------------------------------------- program constants
TokenCacheMinutes == 5
LocationCacheMinutes == 30
\* get_ghl_client keys its clients by the first characters of the token
ClientKeyPrefix == 10

\* The clock advances by a minute, by the lifetime of a validation or by the
\* lifetime of a location token.
TickSteps == {1, TokenCacheMinutes, LocationCacheMinutes}

\* ------------------------------------------------------------- input sets
\* Coroutines that may be in flight at once.
Requests == {"r1", "r2"}

\* TokenManager instances: each of the three singletons owns its own.
Managers == {"token_manager", "auth_middleware", "mcp_auth"}

\* Bearer tokens: two opaque strings (one holds a colon) and three JWTs (with
\* a locationId claim, without one, with an empty one).
Tokens == {"a", "a:b", "h.L.s", "h.N.s", "h.E.s"}

\* Bearer tokens of tool calls: two JWTs, which begin with the same encoded
\* header.
ToolTokens == {"eyJhbGciOiJ1", "eyJhbGciOiJ2"}

\* The operations a caller can start.
ValidatingOps == {"validate_bearer_token", "get_location_from_token",
                  "HTTPAuthMiddleware", "MCPAuthDependency"}

\* A run exercises one part of the module with a few inputs: the operations
\* callers start in it, the bearer tokens they present and the
\* (bearer_token, location_id) pairs they exchange.
ValidationWorld(ops, tokens) == [ops |-> ops, tokens |-> tokens, pairs |-> {}]
ExchangeWorld(pairs) == [ops |-> {"get_location_token"}, tokens |-> {}, pairs |-> pairs]

\* callers call tools of one location with their tokens
ToolWorld(tokens, location_id) ==
    [ops |-> {"call_tool"}, tokens |-> {},
     pairs |-> {<<t, location_id>> : t \in tokens}]

Worlds ==
    { ValidationWorld({"validate_bearer_token", "get_location_from_token"}, {t}) :
          t \in {"a", "h.L.s", "h.N.s"} }
    \cup { ValidationWorld({"HTTPAuthMiddleware"}, {"a"}),
           ValidationWorld({"MCPAuthDependency"}, {"h.N.s"}),
           ValidationWorld({"MCPAuthDependency"}, {"h.L.s"}),
           ValidationWorld({"validate_bearer_token"}, {"a", "h.L.s"}),
           ValidationWorld({"get_location_from_token"}, {"h.E.s"}),
           ExchangeWorld({<<"a", "b:c">>, <<"a:b", "c">>}),
           ExchangeWorld({<<"a", "c">>}),
           ToolWorld(ToolTokens, "c") }

\* JSON objects the oauth-test endpoint answers with on 200.
Payloads == {[user_id |-> "user123"], [user_id |-> "new_user"]}

\* access_token strings the get-token endpoint issues.
ScopedTokens == {"scoped_1", "scoped_2"}

\* ---------------------------------------------------------- python values
None == <<"None">>
Str(s) == <<"str", s>>
Dict(d) == <<"dict", d>>
IsStr(v) == v[1] = "str"

NoException == [type |-> "none", status_code |-> 0, detail |-> ""]
HTTPException(code, text) ==
    [type |-> "HTTPException", status_code |-> code, detail |-> text]
OtherException(name) == [type |-> name, status_code |-> 0, detail |-> ""]

\* s contains sub as a substring (python: sub in s)
Contains(s, sub) ==
    \E i \in 1..(Len(s) - Len(sub) + 1) : SubSeq(s, i, i + Len(sub) - 1) = sub

\* datetime.isoformat / datetime.fromisoformat on minute instants
isoformat(t) == <<"iso", t>>
fromisoformat(s) == s[2]

\* dict assignment c[k] = v
DictSet(c, k, v) == [x \in (DOMAIN c) \cup {k} |-> IF x = k THEN v ELSE c[x]]
EmptyDict == [x \in {} |-> None]

\* dict.get(k) with the default None
Get(d, k) == IF k \in DOMAIN d THEN d[k] ELSE None

\* python truthiness of the values that occur here
Truthy(v) == v # None /\ v # Str("")

\* ----------------------------------------------------------- jwt.decode
\* A token of three dot-separated segments is a JWT; the middle segment
\* stands for the base64 text of its claims object.
DotPositions(s) == {i \in 1..Len(s) : SubSeq(s, i, i) = "."}

PayloadSegment(s) ==
    LET dots == DotPositions(s)
        first == CHOOSE i \in dots : \A j \in dots : i <= j
        last == CHOOSE i \in dots : \A j \in dots : j <= i
    IN  SubSeq(s, first + 1, last - 1)

ClaimsOfSegment(seg) ==
    CASE seg = "L" -> [ok |-> TRUE,
                       claims |-> [locationId |-> Str("c"), companyId |-> Str("comp123")]]
      [] seg = "N" -> [ok |-> TRUE, claims |-> [companyId |-> Str("comp123")]]
      [] seg = "E" -> [ok |-> TRUE,
                       claims |-> [locationId |-> Str(""), companyId |-> Str("comp123")]]
      [] OTHER -> [ok |-> FALSE, claims |-> EmptyDict]

\* jwt.decode(token, options={"verify_signature": False}); ok = FALSE is DecodeError
jwt_decode(token) ==
    IF Cardinality(DotPositions(token)) # 2
    THEN [ok |-> FALSE, claims |-> EmptyDict]
    ELSE ClaimsOfSegment(PayloadSegment(token))

TestLocationId == Str("test_location_id")

\* (mutant) a token that cannot be decoded gets a location of its own
LocationFromClaimsOwnFallback(token) ==
    LET decoded == jwt_decode(token) IN
    IF ~decoded.ok THEN Str("unknown_location")
    ELSE LET location_id == Get(decoded.claims, "locationId") IN
         IF Truthy(location_id) THEN location_id ELSE TestLocationId

\* get_location_from_token, lines 70-94: the part after the validation
LocationFromClaims(token) ==
    LET decoded == jwt_decode(token) IN
    IF ~decoded.ok THEN TestLocationId
    ELSE LET location_id == Get(decoded.claims, "locationId") IN
         IF Truthy(location_id) THEN location_id ELSE TestLocationId

\* ------------------------------------------------------ endpoint answers
RequestError == [kind |-> "RequestError", status_code |-> 0, json |-> None, text |-> ""]
Ok200(body) == [kind |-> "Response", status_code |-> 200, json |-> body, text |-> ""]
ErrorAnswer(code, text) ==
    [kind |-> "Response", status_code |-> code, json |-> None, text |-> text]
NoResponse == [kind |-> "none", status_code |-> 0, json |-> None, text |-> ""]

\* a 200 body that is JSON but no object (response.json() gives a list)
NonObject == <<"list">>

ErrorAnswers == {ErrorAnswer(401, "Invalid token"), ErrorAnswer(500, "Unauthorized")}

\* What the oauth-test endpoint can answer for a token, given the set of
\* tokens the identity provider regards as valid at that moment.
OauthTestAnswers(token, valid) ==
    {RequestError}
    \cup (IF token \in valid
          THEN {Ok200(Dict(p)) : p \in Payloads} \cup {Ok200(NonObject)}
          ELSE {})
    \cup {a \in ErrorAnswers : a.status_code = 401 => token \notin valid}

\* What the get-token endpoint can answer.
GetTokenAnswers ==
    {RequestError}
    \cup {Ok200(Dict([access_token |-> Str(s)])) : s \in ScopedTokens}
    \cup {Ok200(Dict([access_token |-> None])), Ok200(Dict(EmptyDict)), Ok200(NonObject)}
    \cup ErrorAnswers

\* ------------------------------------------------------------------ state
VARIABLES
    now,                   \* datetime.now(UTC), in minutes
    idp_valid,             \* tokens the identity provider regards as valid
    token_cache,           \* TokenManager._token_cache, per instance
    location_token_cache,  \* TokenManager._location_token_cache, per instance
    req,                   \* the coroutines in flight: operation, arguments, position
    last,                  \* the call that completed in the step just taken, with its result
    ticks,                 \* number of clock steps so far
    validated,             \* history: last 200-validation per (instance, token)
    exchanged,             \* history: last caching exchange per (instance, token, location)
    key_writer,            \* history: the (token, location) that last wrote a cache key
    fell_back,             \* history: per pair, whether its last completed exchange
                           \* fell back or whether it has recovered from a fallback
    world,                 \* the operations and tokens of this run
    ghl_clients,           \* http_server.ghl_clients: the clients made so far
    handled,               \* the process_message call just made: arguments and result
    calls                  \* number of operations started so far

vars == <<now, idp_valid, token_cache, location_token_cache, req, last, ticks,
          validated, exchanged, key_writer, fell_back, world, calls, ghl_clients,
          handled>>

\* no tool function was awaited
NoOutcome == [kind |-> "none", value |-> None, exc |-> NoException]

\* no process_message call has been made
NoMessage ==
    [processed |-> FALSE, message |-> EmptyDict, location_id |-> "", token |-> "",
     outcome |-> NoOutcome, response |-> None, raised |-> NoException,
     invoked |-> 0]

IdleRequest ==
    [op |-> "none", mgr |-> "token_manager", tok |-> "", loc |-> "",
     creds |-> "none", pc |-> "idle", stage |-> 0, net |-> 0,
     resp |-> NoResponse, ret |-> None, exc |-> NoException, state |-> None,
     presented |-> "", expired |-> FALSE]

Init ==
    /\ now = 0
    /\ idp_valid = Tokens
    /\ token_cache = [m \in Managers |-> EmptyDict]
    /\ location_token_cache = [m \in Managers |-> EmptyDict]
    /\ req = [p \in Requests |-> IdleRequest]
    /\ last = IdleRequest
    /\ ticks = 0
    /\ validated = [m \in Managers |-> EmptyDict]
    /\ exchanged = [m \in Managers |-> EmptyDict]
    /\ key_writer = [m \in Managers |-> EmptyDict]
    /\ fell_back = [m \in Managers |-> EmptyDict]
    /\ world \in Worlds
    /\ calls = 0
    /\ ghl_clients = EmptyDict
    /\ handled = NoMessage

\* ------------------------------------------- TokenManager, lines 29-139
\* (mutant) the expiry comparison reversed
TokenCacheHitReversed(cache, token, t) ==
    /\ token \in DOMAIN cache
    /\ fromisoformat(cache[token]["expires_at"]) < t

\* (mutant) an entry is served up to and including the minute it expires
TokenCacheHitInclusive(cache, token, t) ==
    /\ token \in DOMAIN cache
    /\ LET expires_at == Get(cache[token], "expires_at") IN
       /\ Truthy(expires_at)
       /\ fromisoformat(expires_at) >= t

\* validate_bearer_token, lines 32-37: the cache is consulted first
TokenCacheHit(cache, token, t) ==
    /\ token \in DOMAIN cache
    /\ LET expires_at == Get(cache[token], "expires_at") IN
       /\ Truthy(expires_at)
       /\ fromisoformat(expires_at) > t

\* (mutant) a validation is kept as long as a location token
ValidateOn200LongLife(cache, token, answer, t) ==
    IF answer.json[1] # "dict"
    THEN [cache |-> cache, ret |-> None, exc |-> OtherException("TypeError")]
    ELSE LET data == DictSet(answer.json[2], "expires_at",
                             isoformat(t + LocationCacheMinutes))
         IN  [cache |-> DictSet(cache, token, data), ret |-> Dict(data),
              exc |-> NoException]

\* (mutant) the first writer wins: an entry that is there is not overwritten
ValidateOn200KeepFirst(cache, token, answer, t) ==
    IF answer.json[1] # "dict"
    THEN [cache |-> cache, ret |-> None, exc |-> OtherException("TypeError")]
    ELSE LET data == DictSet(answer.json[2], "expires_at",
                             isoformat(t + TokenCacheMinutes))
         IN  [cache |-> IF token \in DOMAIN cache THEN cache
                        ELSE DictSet(cache, token, data),
              ret |-> Dict(data), exc |-> NoException]

\* (mutant) a 200 answer renews the lifetime of every entry of the cache
ValidateOn200RefreshAll(cache, token, answer, t) ==
    IF answer.json[1] # "dict"
    THEN [cache |-> cache, ret |-> None, exc |-> OtherException("TypeError")]
    ELSE LET data == DictSet(answer.json[2], "expires_at",
                             isoformat(t + TokenCacheMinutes))
             renewed == [k \in DOMAIN cache |->
                            DictSet(cache[k], "expires_at",
                                    isoformat(t + TokenCacheMinutes))]
         IN  [cache |-> DictSet(renewed, token, data),
              ret |-> Dict(data), exc |-> NoException]

\* (mutant) a 200 answer also drops the entries that have expired
ValidateOn200Purge(cache, token, answer, t) ==
    IF answer.json[1] # "dict"
    THEN [cache |-> cache, ret |-> None, exc |-> OtherException("TypeError")]
    ELSE LET data == DictSet(answer.json[2], "expires_at",
                             isoformat(t + TokenCacheMinutes))
             kept == {k \in DOMAIN cache :
                         fromisoformat(cache[k]["expires_at"]) > t}
         IN  [cache |-> DictSet([k \in kept |-> cache[k]], token, data),
              ret |-> Dict(data), exc |-> NoException]

\* (mutant) the payload of a 200 answer is returned and not cached
ValidateOn200NoWrite(cache, token, answer, t) ==
    IF answer.json[1] # "dict"
    THEN [cache |-> cache, ret |-> None, exc |-> OtherException("TypeError")]
    ELSE LET data == DictSet(answer.json[2], "expires_at",
                             isoformat(t + TokenCacheMinutes))
         IN  [cache |-> cache, ret |-> Dict(data), exc |-> NoException]

\* (mutant) an entry that is overwritten gets a lifetime of one minute
ValidateOn200ShortRefresh(cache, token, answer, t) ==
    IF answer.json[1] # "dict"
    THEN [cache |-> cache, ret |-> None, exc |-> OtherException("TypeError")]
    ELSE LET data == DictSet(answer.json[2], "expires_at",
                             isoformat(t + (IF token \in DOMAIN cache THEN 1
                                            ELSE TokenCacheMinutes)))
         IN  [cache |-> DictSet(cache, token, data),
              ret |-> Dict(data), exc |-> NoException]

\* validate_bearer_token, lines 50-55: a 200 answer is stamped, cached, returned
ValidateOn200(cache, token, answer, t) ==
    IF answer.json[1] # "dict"
    THEN [cache |-> cache, ret |-> None, exc |-> OtherException("TypeError")]
    ELSE LET data == DictSet(answer.json[2], "expires_at",
                             isoformat(t + TokenCacheMinutes))
         IN  [cache |-> DictSet(cache, token, data), ret |-> Dict(data),
              exc |-> NoException]

\* (mutant) a non-200 answer is logged and not raised
ValidateOnAnswerNoRaise(cache, token, answer, t) ==
    IF answer.kind = "RequestError"
    THEN [cache |-> cache, ret |-> None,
          exc |-> HTTPException(503, "Authentication service unavailable")]
    ELSE IF answer.status_code = 200 THEN ValidateOn200(cache, token, answer, t)
    ELSE [cache |-> cache, ret |-> Dict(EmptyDict), exc |-> NoException]

\* (mutant) a network-level failure reported as a failed validation
ValidateOnAnswerNetworkAs401(cache, token, answer, t) ==
    IF answer.kind = "RequestError"
    THEN [cache |-> cache, ret |-> None,
          exc |-> HTTPException(401, "Token validation failed: ")]
    ELSE IF answer.status_code = 200 THEN ValidateOn200(cache, token, answer, t)
    ELSE [cache |-> cache, ret |-> None,
          exc |-> HTTPException(401, "Token validation failed: " \o answer.text)]

\* (mutant) the body text left out of the message
ValidateOnAnswerNoBody(cache, token, answer, t) ==
    IF answer.kind = "RequestError"
    THEN [cache |-> cache, ret |-> None,
          exc |-> HTTPException(503, "Authentication service unavailable")]
    ELSE IF answer.status_code = 200 THEN ValidateOn200(cache, token, answer, t)
    ELSE [cache |-> cache, ret |-> None,
          exc |-> HTTPException(401, "Token validation failed")]

\* (mutant) the status of the answer is passed on as the status of the error
ValidateOnAnswerPassStatus(cache, token, answer, t) ==
    IF answer.kind = "RequestError"
    THEN [cache |-> cache, ret |-> None,
          exc |-> HTTPException(503, "Authentication service unavailable")]
    ELSE IF answer.status_code = 200 THEN ValidateOn200(cache, token, answer, t)
    ELSE [cache |-> cache, ret |-> None,
          exc |-> HTTPException(answer.status_code,
                                "Token validation failed: " \o answer.text)]

\* (mutant) a rejected token loses its cache entry
ValidateOnAnswerEvicts(cache, token, answer, t) ==
    IF answer.kind = "RequestError"
    THEN [cache |-> cache, ret |-> None,
          exc |-> HTTPException(503, "Authentication service unavailable")]
    ELSE IF answer.status_code = 200 THEN ValidateOn200(cache, token, answer, t)
    ELSE [cache |-> [k \in DOMAIN cache \ {token} |-> cache[k]], ret |-> None,
          exc |-> HTTPException(401, "Token validation failed: " \o answer.text)]

\* validate_bearer_token, lines 40-63: the answer of oauth-test is processed.
\* Gives the cache afterwards, the value returned and the exception raised.
ValidateOnAnswer(cache, token, answer, t) ==
    IF answer.kind = "RequestError"
    THEN [cache |-> cache, ret |-> None,
          exc |-> HTTPException(503, "Authentication service unavailable")]
    ELSE IF answer.status_code = 200 THEN ValidateOn200(cache, token, answer, t)
    ELSE [cache |-> cache, ret |-> None,
          exc |-> HTTPException(401, "Token validation failed: " \o answer.text)]

\* get_location_token, line 98
CacheKey(bearer_token, location_id) == bearer_token \o ":" \o location_id

\* get_location_token, lines 101-106
LocationCacheHit(cache, cache_key, t) ==
    /\ cache_key \in DOMAIN cache
    /\ LET expires_at == Get(cache[cache_key], "expires_at") IN
       /\ Truthy(expires_at)
       /\ fromisoformat(expires_at) > t

\* get_location_token, lines 132-139: the answers on which the method falls
\* back to the bearer token (the POST raised, a status other than 200, a 200
\* body on which data.get raises)
ExchangeFailed(answer) ==
    \/ answer.kind = "RequestError"
    \/ answer.status_code # 200
    \/ answer.json[1] # "dict"

\* (mutant) the access_token of a 200 answer is ignored
ExchangeOn200KeepsBearer(cache, bearer_token, location_id, answer, t) ==
    IF answer.json[1] # "dict"
    THEN [cache |-> cache, ret |-> Str(bearer_token)]
    ELSE [cache |-> DictSet(cache, CacheKey(bearer_token, location_id),
                            [token |-> Str(bearer_token),
                             expires_at |-> isoformat(t + LocationCacheMinutes)]),
          ret |-> Str(bearer_token)]

\* get_location_token, lines 120-130: a 200 answer; data.get("access_token",
\* bearer_token) on a body that is no object raises, which line 136 catches
ExchangeOn200(cache, bearer_token, location_id, answer, t) ==
    IF answer.json[1] # "dict"
    THEN [cache |-> cache, ret |-> Str(bearer_token)]
    ELSE LET data == answer.json[2]
             location_token == IF "access_token" \in DOMAIN data
                               THEN data["access_token"]
                               ELSE Str(bearer_token)
         IN  [cache |-> DictSet(cache, CacheKey(bearer_token, location_id),
                                [token |-> location_token,
                                 expires_at |-> isoformat(t + LocationCacheMinutes)]),
              ret |-> location_token]

\* (mutant) the fallback of a non-200 answer is cached like a scoped token
ExchangeOnAnswerCachesFallback(cache, bearer_token, location_id, answer, t) ==
    IF answer.kind = "RequestError"
    THEN [cache |-> cache, ret |-> Str(bearer_token)]
    ELSE IF answer.status_code = 200
    THEN ExchangeOn200(cache, bearer_token, location_id, answer, t)
    ELSE [cache |-> DictSet(cache, CacheKey(bearer_token, location_id),
                            [token |-> Str(bearer_token),
                             expires_at |-> isoformat(t + LocationCacheMinutes)]),
          ret |-> Str(bearer_token)]

\* get_location_token, lines 109-139: the answer of get-token is processed.
\* Gives the cache afterwards and the value returned; nothing is raised.
ExchangeOnAnswer(cache, bearer_token, location_id, answer, t) ==
    IF answer.kind = "RequestError"
    THEN [cache |-> cache, ret |-> Str(bearer_token)]
    ELSE IF answer.status_code = 200
    THEN ExchangeOn200(cache, bearer_token, location_id, answer, t)
    ELSE [cache |-> cache, ret |-> Str(bearer_token)]

\* ------------------------------------------------------- the coroutines
Free(p, op) == req[p].pc = "idle" /\ calls < MaxCalls /\ op \in world.ops

\* Request p goes on as r: suspended on a POST, or completed.
Continue(p, r) ==
    IF r.pc = "done"
    THEN req' = [req EXCEPT ![p] = IdleRequest] /\ last' = r
    ELSE req' = [req EXCEPT ![p] = r] /\ last' = IdleRequest

NewRequest(op, mgr, tok, loc, creds) ==
    [IdleRequest EXCEPT !.op = op, !.mgr = mgr, !.tok = tok, !.loc = loc,
                        !.creds = creds, !.stage = 1]

Finish(r, ret, exc) == [r EXCEPT !.pc = "done", !.ret = ret, !.exc = exc]

\* (mutant) every exception is turned into the generic 401
AuthCatchAll(exc) == HTTPException(401, "Authentication failed")

\* (mutant) no except clause: every exception leaves as it is
AuthCatchNothing(exc) == exc

\* HTTPAuthMiddleware.__call__, lines 161-165
AuthCatch(exc) ==
    IF exc.type = "HTTPException" THEN exc
    ELSE HTTPException(401, "Authentication failed")

\* (mutant) the dependency hands out a location token in place of the bearer token
AuthReturnScoped(r, location_id) ==
    IF r.op = "MCPAuthDependency"
    THEN [Finish(r, <<"tuple", location_id, Str("scoped_1")>>, NoException)
            EXCEPT !.state = [bearer_token |-> Str("scoped_1"), location_id |-> location_id]]
    ELSE Finish(r, location_id, NoException)

\* HTTPAuthMiddleware.__call__ line 160, MCPAuthDependency.__call__ lines 196-202
AuthReturn(r, location_id) ==
    IF r.op = "MCPAuthDependency"
    THEN [Finish(r, <<"tuple", location_id, Str(r.tok)>>, NoException)
            EXCEPT !.state = [bearer_token |-> Str(r.tok), location_id |-> location_id]]
    ELSE Finish(r, location_id, NoException)

\* A validate_bearer_token call of request r has returned ret or raised exc,
\* leaving the instance's cache as `cache`: the caller goes on from there.
AfterValidate(r, ret, exc, cache, t) ==
    CASE r.op = "validate_bearer_token" -> Finish(r, ret, exc)
      [] r.op = "get_location_from_token" ->
            \* line 68 is outside the try: an exception leaves the method
            IF exc # NoException THEN Finish(r, None, exc)
            ELSE Finish(r, LocationFromClaims(r.tok), NoException)
      [] OTHER ->
            IF exc # NoException THEN Finish(r, None, AuthCatch(exc))
            ELSE IF r.stage = 1
            THEN \* line 159: get_location_from_token validates once more
                 IF TokenCacheHit(cache, r.tok, t)
                 THEN AuthReturn(r, LocationFromClaims(r.tok))
                 ELSE [r EXCEPT !.pc = "oauth-test", !.stage = 2, !.net = @ + 1]
            ELSE AuthReturn(r, LocationFromClaims(r.tok))

\* the cache holds an entry for the token whose expires_at has been reached
ExpiredEntry(cache, token, t) ==
    /\ token \in DOMAIN cache
    /\ fromisoformat(cache[token]["expires_at"]) <= t

\* A request reaches its (first) validate_bearer_token call: served from the
\* cache, or suspended on the POST to oauth-test.  `expired` notes what the
\* cache held for the token at that moment.
StartValidate(r, cache, t) ==
    LET r0 == [r EXCEPT !.expired = ExpiredEntry(cache, r.tok, t)] IN
    IF TokenCacheHit(cache, r.tok, t)
    THEN AfterValidate(r0, Dict(cache[r.tok]), NoException, cache, t)
    ELSE [r0 EXCEPT !.pc = "oauth-test", !.net = @ + 1]

Unchanged_caches == UNCHANGED <<token_cache, location_token_cache, ghl_clients>>
Unchanged_history == UNCHANGED <<validated, exchanged, key_writer, world, handled>>
Unchanged_fallbacks == UNCHANGED fell_back
Started == calls' = calls + 1

\* await token_manager.validate_bearer_token(token)
CallValidate(p, m, tok) ==
    /\ Free(p, "validate_bearer_token")
    /\ Continue(p, StartValidate(NewRequest("validate_bearer_token", m, tok, "", "param"),
                                 token_cache[m], now))
    /\ Started
    /\ UNCHANGED <<now, ticks, idp_valid>>
    /\ Unchanged_caches
    /\ Unchanged_history
    /\ Unchanged_fallbacks

\* await token_manager.get_location_from_token(token)
CallResolve(p, m, tok) ==
    /\ Free(p, "get_location_from_token")
    /\ Continue(p, StartValidate(NewRequest("get_location_from_token", m, tok, "", "param"),
                                 token_cache[m], now))
    /\ Started
    /\ UNCHANGED <<now, ticks, idp_valid>>
    /\ Unchanged_caches
    /\ Unchanged_history
    /\ Unchanged_fallbacks

\* await token_manager.get_location_token(bearer_token, location_id)
CallExchange(p, m, tok, loc) ==
    /\ Free(p, "get_location_token")
    /\ LET r == NewRequest("get_location_token", m, tok, loc, "param")
           cache == location_token_cache[m]
           cache_key == CacheKey(tok, loc)
           hit == LocationCacheHit(cache, cache_key, now)
       IN  /\ Continue(p, IF hit
                          THEN Finish(r, cache[cache_key].token, NoException)
                          ELSE [r EXCEPT !.pc = "get-token", !.net = @ + 1])
           /\ fell_back' = IF hit /\ <<tok, loc>> \in DOMAIN fell_back[m]
                           THEN [fell_back EXCEPT ![m] =
                                    DictSet(@, <<tok, loc>>, "recovered")]
                           ELSE fell_back
    /\ Started
    /\ UNCHANGED <<now, ticks, idp_valid>>
    /\ Unchanged_caches
    /\ Unchanged_history

\* python slice s[:n]
Prefix(s, n) == SubSeq(s, 1, IF Len(s) < n THEN Len(s) ELSE n)

\* get_ghl_client, line 62
ClientKey(location_id, token) == location_id \o ":" \o Prefix(token, ClientKeyPrefix)

\* get_ghl_client, lines 64-83: the clients after the call; a new client
\* wraps a RemoteOAuthService that holds the token it was made with
GetGhlClient(clients, location_id, token) ==
    IF ClientKey(location_id, token) \notin DOMAIN clients
    THEN DictSet(clients, ClientKey(location_id, token),
                 [token |-> token, location_id |-> location_id])
    ELSE clients

\* The location a client asks its oauth service a token for when a tool
\* makes it act on location_id.
ClientLocation(location_id) == location_id

\* await tool_registry.call_tool(name, params, location_id, token), up to the
\* exchange the client makes through RemoteOAuthService.get_location_token:
\* the request is that get_location_token call, `presented` the token of
\* the tool call.
CallTool(p, location_id, token) ==
    /\ Free(p, "call_tool")
    /\ ghl_clients' = GetGhlClient(ghl_clients, location_id, token)
    /\ LET client == ghl_clients'[ClientKey(location_id, token)]
           loc_id == ClientLocation(location_id)
           r == [NewRequest("get_location_token", "token_manager", client.token,
                            loc_id, "param") EXCEPT !.presented = token]
           cache == location_token_cache["token_manager"]
           cache_key == CacheKey(client.token, loc_id)
           hit == LocationCacheHit(cache, cache_key, now)
       IN  /\ Continue(p, IF hit
                          THEN Finish(r, cache[cache_key].token, NoException)
                          ELSE [r EXCEPT !.pc = "get-token", !.net = @ + 1])
           /\ fell_back' =
                IF hit /\ <<client.token, loc_id>> \in DOMAIN fell_back["token_manager"]
                THEN [fell_back EXCEPT !["token_manager"] =
                         DictSet(@, <<client.token, loc_id>>, "recovered")]
                ELSE fell_back
    /\ Started
    /\ UNCHANGED <<now, ticks, idp_valid, token_cache, location_token_cache>>
    /\ Unchanged_history

\* await auth_middleware(credentials); creds = "none" is credentials None
CallAuth(p, inst, tok, creds) ==
    /\ Free(p, "HTTPAuthMiddleware")
    /\ LET r == NewRequest("HTTPAuthMiddleware", inst,
                           IF creds = "none" THEN "" ELSE tok, "", creds)
       IN  Continue(p, IF creds = "none"
                       THEN Finish(r, None,
                                   HTTPException(401, "Missing authorization header"))
                       ELSE StartValidate(r, token_cache[inst], now))
    /\ Started
    /\ UNCHANGED <<now, ticks, idp_valid>>
    /\ Unchanged_caches
    /\ Unchanged_history
    /\ Unchanged_fallbacks

\* self.security = HTTPBearer() (line 173) raises on a request without a
\* usable Authorization header: 'Not authenticated', with status 403 or 401
\* according to the release of the library.
NotAuthenticatedStatuses == {403, 401}

\* await mcp_auth(request, credentials): creds tells where the credentials
\* come from: the parameter, the request's Authorization header (through
\* self.security), nowhere because self.security returns None ("none"), or
\* nowhere because the header is absent and self.security raises ("absent").
CallMcp(p, tok, creds) ==
    /\ Free(p, "MCPAuthDependency")
    /\ LET r == NewRequest("MCPAuthDependency", "mcp_auth",
                           IF creds \in {"none", "absent"} THEN "" ELSE tok, "", creds)
       IN  CASE creds = "none" ->
                  Continue(p, Finish(r, None, HTTPException(401, "Missing authorization")))
             [] creds = "absent" ->
                  \E code \in NotAuthenticatedStatuses :
                     Continue(p, Finish(r, None, HTTPException(code, "Not authenticated")))
             [] OTHER -> Continue(p, StartValidate(r, token_cache["mcp_auth"], now))
    /\ Started
    /\ UNCHANGED <<now, ticks, idp_valid>>
    /\ Unchanged_caches
    /\ Unchanged_history
    /\ Unchanged_fallbacks

\* The POST to oauth-test of request p is answered (or fails).
OauthTestAnswer(p, answer) ==
    /\ req[p].pc = "oauth-test"
    /\ answer \in OauthTestAnswers(req[p].tok, idp_valid)
    /\ LET r == req[p]
           o == ValidateOnAnswer(token_cache[r.mgr], r.tok, answer, now)
       IN  /\ token_cache' = [token_cache EXCEPT ![r.mgr] = o.cache]
           /\ Continue(p, AfterValidate([r EXCEPT !.resp = answer],
                                         o.ret, o.exc, o.cache, now))
           /\ validated' =
                IF answer.status_code = 200 /\ answer.json[1] = "dict"
                THEN [validated EXCEPT ![r.mgr] =
                        DictSet(@, r.tok, [ret |-> o.ret, at |-> now])]
                ELSE validated
    /\ UNCHANGED <<now, ticks, idp_valid, location_token_cache, exchanged,
                   key_writer, fell_back, world, calls, ghl_clients, handled>>

\* The POST to get-token of request p is answered (or fails).
GetTokenAnswer(p, answer) ==
    /\ req[p].pc = "get-token"
    /\ answer \in GetTokenAnswers
    /\ LET r == req[p]
           o == ExchangeOnAnswer(location_token_cache[r.mgr], r.tok, r.loc, answer, now)
           cached == answer.status_code = 200 /\ answer.json[1] = "dict"
       IN  /\ location_token_cache' = [location_token_cache EXCEPT ![r.mgr] = o.cache]
           /\ Continue(p, Finish([r EXCEPT !.resp = answer], o.ret, NoException))
           /\ exchanged' =
                IF cached
                THEN [exchanged EXCEPT ![r.mgr] =
                        DictSet(@, <<r.tok, r.loc>>, [token |-> o.ret, at |-> now])]
                ELSE exchanged
           /\ key_writer' =
                IF cached
                THEN [key_writer EXCEPT ![r.mgr] =
                        DictSet(@, CacheKey(r.tok, r.loc), <<r.tok, r.loc>>)]
                ELSE key_writer
           /\ fell_back' =
                IF ExchangeFailed(answer)
                THEN [fell_back EXCEPT ![r.mgr] =
                        DictSet(@, <<r.tok, r.loc>>, "fell back")]
                ELSE IF <<r.tok, r.loc>> \in DOMAIN fell_back[r.mgr]
                THEN [fell_back EXCEPT ![r.mgr] =
                        DictSet(@, <<r.tok, r.loc>>, "recovered")]
                ELSE fell_back
    /\ UNCHANGED <<now, ticks, idp_valid, token_cache, validated, world, calls, ghl_clients, handled>>

\* Time passes.
Tick(minutes) ==
    /\ ticks < MaxTicks
    /\ ticks' = ticks + 1
    /\ now' = now + minutes
    /\ last' = IdleRequest
    /\ UNCHANGED <<idp_valid, token_cache, location_token_cache, req,
                   validated, exchanged, key_writer, fell_back, world, calls, ghl_clients, handled>>

\* The identity provider revokes a token, or accepts it (again).
IdpChange(tok) ==
    /\ world.ops \cap ValidatingOps # {}
    /\ idp_valid' = IF tok \in idp_valid THEN idp_valid \ {tok}
                    ELSE idp_valid \cup {tok}
    /\ last' = IdleRequest
    /\ UNCHANGED <<now, ticks, token_cache, location_token_cache, req,
                   validated, exchanged, key_writer, fell_back, world, calls, ghl_clients, handled>>

\* ------------------------------------------- the MCP protocol handler
\* tool_registry.tools after startup (two of the eight registered names)
RegisteredTools == {"search_contacts", "get_contact"}

\* JSON-RPC "internal error", the code of every top-level error
InternalError == -32603

\* an exception with the text str(e) gives
Raised(name, text) == [type |-> name, status_code |-> 0, detail |-> text]

\* asyncio.CancelledError: raised into a coroutine whose task is cancelled
\* while it awaits; derives from BaseException, not from Exception
CancelledError == Raised("CancelledError", "")

\* `except Exception` catches exc
IsException(exc) == exc.type \notin {"none", "CancelledError"}

\* What awaiting a tool function can do: return a JSON value, return a value
\* json.dumps cannot serialise, raise (get_contact_impl raises KeyError when
\* params has no contact_id), or be cancelled.
ToolOutcomes ==
    {[kind |-> "returns", value |-> Dict([contacts |-> <<>>]), exc |-> NoException],
     [kind |-> "returns", value |-> <<"object">>, exc |-> NoException],
     [kind |-> "raises", value |-> None, exc |-> Raised("KeyError", "'contact_id'")],
     [kind |-> "raises", value |-> None, exc |-> CancelledError]}

\* The messages: a JSON object in which method, params and id may each be
\* missing; params may be null or an array.
Absent == <<"absent">>
Message(method, params, id) ==
    LET kv == [method |-> method, params |-> params, id |-> id]
    IN  [k \in {x \in {"method", "params", "id"} : kv[x] # Absent} |-> kv[k]]

Methods ==
    {Str("initialize"), Str("tools/list"), Str("tools/call"), Str("resources/list"),
     Absent}
ParamsValues ==
    {Dict(EmptyDict),
     Dict([name |-> Str("search_contacts")]),
     Dict([name |-> Str("get_contact"), arguments |-> Dict(EmptyDict)]),
     Dict([name |-> Str("delete_contact")]),
     NonObject, None, Absent}
Ids == {<<"int", 1>>, Str("abc"), Absent}
Messages ==
    {Message(method, params, id) : method \in Methods, params \in ParamsValues, id \in Ids}

\* str(v) inside an f-string
StrOf(v) == IF IsStr(v) THEN v[2] ELSE "None"

\* json.dumps(result, indent=2): the text, or TypeError
IsSerializable(v) == v[1] # "object"
JsonDumps(v) == <<"json", v>>

\* MCPToolRegistry.call_tool, lines 100-112
call_tool(name, params, location_id, token, clients, outcome) ==
    IF ~(IsStr(name) /\ name[2] \in RegisteredTools)
    THEN [clients |-> clients, ret |-> None, invoked |-> 0,
          exc |-> Raised("ValueError", "Tool " \o StrOf(name) \o " not found")]
    ELSE [clients |-> GetGhlClient(clients, location_id, token),
          ret |-> outcome.value, invoked |-> 1, exc |-> outcome.exc]

\* The dict handle_tools_call returns when the tool failed, lines 541-546
ToolError(e) == Dict([error |-> [code |-> "TOOL_ERROR", message |-> e.detail]])

\* (mutant) no try around the tool call: its exceptions leave the method
handle_tools_call_no_try(params, location_id, token, clients, outcome) ==
    IF params[1] # "dict"
    THEN [clients |-> clients, ret |-> None, invoked |-> 0,
          exc |-> Raised("AttributeError", "object has no attribute 'get'")]
    ELSE LET tool_name == Get(params[2], "name")
             tool_args == IF "arguments" \in DOMAIN params[2]
                          THEN params[2]["arguments"] ELSE Dict(EmptyDict)
         IN  IF ~(IsStr(tool_name) /\ tool_name[2] \in RegisteredTools)
             THEN [clients |-> clients, ret |-> None, invoked |-> 0,
                   exc |-> Raised("ValueError",
                                  "Tool " \o StrOf(tool_name) \o " not found")]
             ELSE LET c == call_tool(tool_name, tool_args, location_id, token,
                                     clients, outcome)
                  IN  IF c.exc # NoException THEN c
                      ELSE IF ~IsSerializable(c.ret)
                      THEN [c EXCEPT !.ret = None,
                                     !.exc = Raised("TypeError",
                                                    "Object is not JSON serializable")]
                      ELSE [c EXCEPT !.ret =
                              Dict([content |-> <<[type |-> "text",
                                                   text |-> JsonDumps(c.ret)]>>])]

\* MCPProtocolHandler.handle_tools_call, lines 520-546.  Gives the clients
\* afterwards, the value returned, the exception raised and the number of
\* tool functions invoked.
handle_tools_call(params, location_id, token, clients, outcome) ==
    IF params[1] # "dict"
    THEN \* params.get raises
         [clients |-> clients, ret |-> None, invoked |-> 0,
          exc |-> Raised("AttributeError", "object has no attribute 'get'")]
    ELSE LET tool_name == Get(params[2], "name")
             tool_args == IF "arguments" \in DOMAIN params[2]
                          THEN params[2]["arguments"] ELSE Dict(EmptyDict)
         IN  IF ~(IsStr(tool_name) /\ tool_name[2] \in RegisteredTools)
             THEN [clients |-> clients, ret |-> None, invoked |-> 0,
                   exc |-> Raised("ValueError",
                                  "Tool " \o StrOf(tool_name) \o " not found")]
             ELSE LET c == call_tool(tool_name, tool_args, location_id, token,
                                     clients, outcome)
                  IN  IF c.exc # NoException
                      THEN IF IsException(c.exc)
                           THEN [c EXCEPT !.ret = ToolError(c.exc), !.exc = NoException]
                           ELSE c
                      ELSE IF ~IsSerializable(c.ret)
                      THEN [c EXCEPT !.ret =
                              ToolError(Raised("TypeError",
                                               "Object is not JSON serializable"))]
                      ELSE [c EXCEPT !.ret =
                              Dict([content |-> <<[type |-> "text",
                                                   text |-> JsonDumps(c.ret)]>>])]

\* MCPProtocolHandler.handle_initialize, lines 493-507
handle_initialize(params) ==
    Dict([protocolVersion |-> "0.1.0",
          serverInfo |-> [name |-> "GoHighLevel MCP Server", version |-> "1.0.0"],
          capabilities |-> [tools |-> {"listTools", "callTool"}]])

\* MCPProtocolHandler.handle_tools_list, lines 509-518
handle_tools_list(params) == Dict([tools |-> RegisteredTools])

\* process_message, lines 554-562: the handler the method selects
Dispatch(method, params, location_id, token, clients, outcome) ==
    IF method = Str("initialize")
    THEN [clients |-> clients, ret |-> handle_initialize(params), invoked |-> 0,
          exc |-> NoException]
    ELSE IF method = Str("tools/list")
    THEN [clients |-> clients, ret |-> handle_tools_list(params), invoked |-> 0,
          exc |-> NoException]
    ELSE IF method = Str("tools/call")
    THEN handle_tools_call(params, location_id, token, clients, outcome)
    ELSE [clients |-> clients, ret |-> None, invoked |-> 0,
          exc |-> Raised("ValueError", "Unknown method: " \o StrOf(method))]

\* (mutant) the error response is built without the id of the message
process_message_error_without_id(message, location_id, token, clients, outcome) ==
    LET method == Get(message, "method")
        params == IF "params" \in DOMAIN message THEN message["params"]
                  ELSE Dict(EmptyDict)
        msg_id == Get(message, "id")
        h == Dispatch(method, params, location_id, token, clients, outcome)
    IN  IF h.exc = NoException
        THEN [clients |-> h.clients, invoked |-> h.invoked, raised |-> NoException,
              response |-> [jsonrpc |-> "2.0", id |-> msg_id, result |-> h.ret]]
        ELSE IF IsException(h.exc)
        THEN [clients |-> h.clients, invoked |-> h.invoked, raised |-> NoException,
              response |-> [jsonrpc |-> "2.0", id |-> None,
                            error |-> [code |-> InternalError,
                                       message |-> h.exc.detail]]]
        ELSE [clients |-> h.clients, invoked |-> h.invoked, raised |-> h.exc,
              response |-> None]

\* MCPProtocolHandler.process_message, lines 548-578.  Gives the clients
\* afterwards, the response returned (None when the method raises), the
\* exception raised and the number of tool functions invoked.
process_message(message, location_id, token, clients, outcome) ==
    LET method == Get(message, "method")
        params == IF "params" \in DOMAIN message THEN message["params"]
                  ELSE Dict(EmptyDict)
        msg_id == Get(message, "id")
        h == Dispatch(method, params, location_id, token, clients, outcome)
    IN  IF h.exc = NoException
        THEN [clients |-> h.clients, invoked |-> h.invoked, raised |-> NoException,
              response |-> [jsonrpc |-> "2.0", id |-> msg_id, result |-> h.ret]]
        ELSE IF IsException(h.exc)
        THEN [clients |-> h.clients, invoked |-> h.invoked, raised |-> NoException,
              response |-> [jsonrpc |-> "2.0", id |-> msg_id,
                            error |-> [code |-> InternalError,
                                       message |-> h.exc.detail]]]
        ELSE \* not caught by `except Exception`
             [clients |-> h.clients, invoked |-> h.invoked, raised |-> h.exc,
              response |-> None]

\* await handler.process_message(message, location_id, token)
ProcessMessage(message, location_id, token, outcome) ==
    /\ LET o == process_message(message, location_id, token, ghl_clients, outcome)
       IN  /\ ghl_clients' = o.clients
           /\ handled' = [processed |-> TRUE, message |-> message,
                          location_id |-> location_id, token |-> token,
                          outcome |-> IF o.invoked = 1 THEN outcome ELSE NoOutcome,
                          response |-> o.response, raised |-> o.raised,
                          invoked |-> o.invoked]
    /\ UNCHANGED <<now, idp_valid, token_cache, location_token_cache, req, last,
                   ticks, validated, exchanged, key_writer, fell_back, world, calls>>

Next ==
    \/ \E p \in Requests, tok \in world.tokens : CallValidate(p, "token_manager", tok)
    \/ \E p \in Requests, tok \in world.tokens : CallResolve(p, "token_manager", tok)
    \/ \E p \in Requests, pair \in world.pairs :
          CallExchange(p, "token_manager", pair[1], pair[2])
    \/ \E p \in Requests, tok \in world.tokens, creds \in {"param", "none"} :
          CallAuth(p, "auth_middleware", tok, creds)
    \/ \E p \in Requests, tok \in world.tokens,
          creds \in {"param", "header", "none", "absent"} :
          CallMcp(p, tok, creds)
    \/ \E p \in Requests, pair \in world.pairs : CallTool(p, pair[2], pair[1])
    \/ \E p \in Requests : \E answer \in OauthTestAnswers(req[p].tok, idp_valid) :
          OauthTestAnswer(p, answer)
    \/ \E p \in Requests, answer \in GetTokenAnswers : GetTokenAnswer(p, answer)
    \/ \E minutes \in TickSteps : Tick(minutes)
    \/ \E tok \in world.tokens : IdpChange(tok)

Spec == Init /\ [][Next]_vars

\* The protocol handler alone: any message, any tool outcome, for the tool
\* tokens and location of the tool world.
MessageInit == Init /\ world = ToolWorld(ToolTokens, "c")

MessageNext ==
    \E message \in Messages, pair \in world.pairs, outcome \in ToolOutcomes :
       ProcessMessage(message, pair[2], pair[1], outcome)

MessageSpec == MessageInit /\ [][MessageNext]_vars

\* ------------------------------------------------------------ the claims
Completed(op) == last.pc = "done" /\ last.op = op
AuthOps == {"HTTPAuthMiddleware", "MCPAuthDependency"}
AllPairs == UNION {w.pairs : w \in Worlds}

\* C1: a validate(T) made while the last successful validation of T is less
\* than 5 minutes old makes no call to the identity endpoint and returns the
\* payload that validation returned.
C1_ValidatorCacheHit ==
    [][Started =>
       \A p \in Requests, m \in Managers, tok \in Tokens :
         (/\ tok \in DOMAIN validated[m]
          /\ now < validated[m][tok].at + 5
          /\ CallValidate(p, m, tok))
         => (/\ Completed("validate_bearer_token")'
             /\ last'.net = 0
             /\ last'.exc = NoException
             /\ last'.ret = validated[m][tok].ret)]_vars

\* a validate served from the cache at a later minute than the validation
C1_Witness ==
    /\ Completed("validate_bearer_token")
    /\ last.net = 0
    /\ last.exc = NoException
    /\ last.tok \in DOMAIN validated[last.mgr]
    /\ now > validated[last.mgr][last.tok].at

\* C2 (as claimed): an authenticate call whose token the identity provider
\* regards as invalid ends with a 401 error and yields nothing, whatever
\* happened to the token in earlier requests.  (A provider that cannot be
\* reached regards nothing: that case is C9's.)
C2_InvalidTokenAlways401 ==
    (/\ last.pc = "done" /\ last.op \in AuthOps
     /\ last.creds \in {"param", "header"}
     /\ last.resp.kind # "RequestError"
     /\ last.tok \notin idp_valid)
    => (/\ last.exc.type = "HTTPException" /\ last.exc.status_code = 401
        /\ last.ret = None)

\* C2 (amended): an authenticate call that had to ask the identity provider
\* (no unexpired cache entry) about a token the provider regards as invalid
\* never succeeds: it ends with 401, or with 503 when the provider could not
\* be reached.
C2_InvalidTokenRejectedOnMiss ==
    (/\ last.pc = "done" /\ last.op \in AuthOps
     /\ last.net > 0
     /\ last.tok \notin idp_valid)
    => (/\ last.exc.type = "HTTPException"
        /\ last.ret = None
        /\ last.state = None
        /\ IF last.resp.kind = "RequestError"
           THEN last.exc.status_code = 503
           ELSE last.exc.status_code = 401)

C2_Witness ==
    /\ last.pc = "done" /\ last.op \in AuthOps
    /\ last.net > 0
    /\ last.tok \notin idp_valid
    /\ last.exc.status_code = 401

\* C3: an exchange(T, L) made less than 30 minutes after an exchange(T, L)
\* cached a scoped token returns that token and makes no call to the
\* exchange endpoint.
C3_ExchangerCacheHit ==
    [][\A p \in Requests, m \in Managers, pair \in AllPairs :
         (/\ CallExchange(p, m, pair[1], pair[2])
          /\ pair \in DOMAIN exchanged[m]
          /\ now < exchanged[m][pair].at + 30)
         => (/\ Completed("get_location_token")'
             /\ last'.net = 0
             /\ last'.ret = exchanged[m][pair].token)]_vars

C5_ExchangeReturnsTokenString ==
    Completed("get_location_token")
    => (/\ last.exc = NoException
        /\ IsStr(last.ret)
        /\ (last.ret = Str(last.tok) \/ last.ret \in {Str(s) : s \in ScopedTokens}))

\* C6 (as claimed): an exchange(T2, L2) served from the cache returns an
\* entry that an exchange of the same pair (T2, L2) wrote.
C6_CacheKeyedByPair ==
    (Completed("get_location_token") /\ last.net = 0)
    => key_writer[last.mgr][CacheKey(last.tok, last.loc)] = <<last.tok, last.loc>>

\* C7 (as claimed): get_location_from_token raises nothing and returns a string.
C7_ResolveNeverFails ==
    Completed("get_location_from_token")
    => (last.exc = NoException /\ IsStr(last.ret))

\* C8: a network-level failure of the call to the identity endpoint makes
\* validate(T) fail with 503 'Authentication service unavailable'.
C8_NetworkErrorIs503 ==
    (Completed("validate_bearer_token") /\ last.resp.kind = "RequestError")
    => last.exc = HTTPException(503, "Authentication service unavailable")

C8_Witness ==
    Completed("validate_bearer_token") /\ last.resp.kind = "RequestError"

\* C9: an authenticate call (HTTPAuthMiddleware or MCPAuthDependency) whose
\* validation call fails at the network level ends with status 503, not 401.
C9_AuthSurfaces503 ==
    (/\ last.pc = "done" /\ last.op \in AuthOps
     /\ last.resp.kind = "RequestError")
    => (/\ last.exc.type = "HTTPException"
        /\ last.exc.status_code = 503
        /\ last.ret = None)

C9_Witness ==
    /\ Completed("MCPAuthDependency")
    /\ last.resp.kind = "RequestError"
    /\ last.exc.status_code = 503

\* C10: on any non-200 answer of the identity endpoint validate(T) raises
\* the 401 error, whose message contains the body text of the answer.
C10_Non200RaisesWithBody ==
    (/\ Completed("validate_bearer_token")
     /\ last.resp.kind = "Response" /\ last.resp.status_code # 200)
    => (/\ last.exc.type = "HTTPException"
        /\ last.exc.status_code = 401
        /\ Contains(last.exc.detail, last.resp.text))

C10_Witness ==
    /\ Completed("validate_bearer_token")
    /\ last.resp.kind = "Response" /\ last.resp.status_code = 500
    /\ last.resp.text = "Unauthorized"
    /\ last.exc.type = "HTTPException"

\* str(status_code) of the statuses that occur
StatusText(code) ==
    CASE code = 200 -> "200" [] code = 401 -> "401" [] code = 403 -> "403"
      [] code = 500 -> "500" [] code = 503 -> "503" [] OTHER -> "?"

\* C11 (as claimed): on a non-200 answer the error of validate(T) carries the
\* status of the answer, as its status code or in its message.
C11_ErrorCarriesResponseStatus ==
    (/\ Completed("validate_bearer_token")
     /\ last.resp.kind = "Response" /\ last.resp.status_code # 200)
    => (\/ last.exc.status_code = last.resp.status_code
        \/ Contains(last.exc.detail, StatusText(last.resp.status_code)))

\* C11 (amended): on a non-200 answer the error of validate(T) is the 401
\* error 'Token validation failed: <body text>' whatever the status of the
\* answer was; the status of the answer is not in it.
C11_ErrorIs401WithBodyOnly ==
    (/\ Completed("validate_bearer_token")
     /\ last.resp.kind = "Response" /\ last.resp.status_code # 200)
    => (/\ last.exc = HTTPException(401, "Token validation failed: " \o last.resp.text)
        /\ last.ret = None
        /\ (last.resp.status_code # 401
            => ~Contains(last.exc.detail, StatusText(last.resp.status_code))))

\* a validate answered 500 has raised the 401 error
C11_Witness ==
    /\ Completed("validate_bearer_token")
    /\ last.resp.kind = "Response" /\ last.resp.status_code = 500
    /\ last.exc = HTTPException(401, "Token validation failed: Unauthorized")

C13_NoCredentialsIs401 ==
    (/\ last.pc = "done" /\ last.op \in AuthOps
     /\ last.creds \in {"none", "absent"})
    => (/\ last.exc.type = "HTTPException"
        /\ last.exc.status_code = 401
        /\ last.net = 0
        /\ last.state = None)

\* C14: authenticate never exchanges: no step of an authenticate call posts
\* to the exchange endpoint or changes the location-token cache, and a
\* successful MCPAuthDependency call returns, and records on the request
\* state, the bearer token as presented with the resolved location_id.
C14_AuthenticateNeverExchanges ==
    [][/\ \A p \in Requests :
            (req'[p] # req[p] /\ (req[p].op \in AuthOps \/ req'[p].op \in AuthOps))
            => (/\ location_token_cache' = location_token_cache
                /\ req'[p].pc # "get-token")
       /\ (last'.pc = "done" /\ last'.op \in AuthOps)
            => (/\ location_token_cache' = location_token_cache
                /\ (last'.op = "MCPAuthDependency" /\ last'.exc = NoException)
                   => (/\ last'.ret = <<"tuple", LocationFromClaims(last'.tok),
                                        Str(last'.tok)>>
                       /\ last'.state = [bearer_token |-> Str(last'.tok),
                                         location_id |-> LocationFromClaims(last'.tok)]))]_vars

\* a successful MCPAuthDependency call for a token that carries its location
C14_Witness ==
    /\ Completed("MCPAuthDependency")
    /\ last.exc = NoException
    /\ last.ret = <<"tuple", Str("c"), Str("h.L.s")>>
    /\ last.state = [bearer_token |-> Str("h.L.s"), location_id |-> Str("c")]

\* C15 (as claimed): a resolve of a validated token whose decoded claims hold
\* a locationId claim returns the value of that claim.
C15_ResolveReturnsClaim ==
    (/\ Completed("get_location_from_token")
     /\ last.exc = NoException
     /\ jwt_decode(last.tok).ok
     /\ "locationId" \in DOMAIN jwt_decode(last.tok).claims)
    => last.ret = jwt_decode(last.tok).claims["locationId"]

\* the validation of the completed call succeeded: served from the cache, or
\* answered 200 with a JSON object
ValidationSucceeded ==
    \/ last.net = 0
    \/ (last.resp.kind = "Response" /\ last.resp.status_code = 200
        /\ last.resp.json[1] = "dict")

\* C16: a resolve of a validated token that decodes without a locationId
\* claim, or that cannot be decoded, returns the sentinel 'test_location_id'
\* and raises nothing, the same in both cases.
C16_SentinelForNoClaimAndUndecodable ==
    (/\ Completed("get_location_from_token")
     /\ ValidationSucceeded
     /\ \/ ~jwt_decode(last.tok).ok
        \/ "locationId" \notin DOMAIN jwt_decode(last.tok).claims)
    => (last.exc = NoException /\ last.ret = Str("test_location_id"))

\* a resolve of a validated JWT that has no locationId claim
C16_Witness ==
    /\ Completed("get_location_from_token")
    /\ ValidationSucceeded
    /\ jwt_decode(last.tok).ok
    /\ "locationId" \notin DOMAIN jwt_decode(last.tok).claims
    /\ last.ret = Str("test_location_id")

\* C17 (as claimed): a 200 answer without an access_token field makes
\* exchange(T, L) return T and cache T for (T, L) until now + 30 minutes, and
\* an exchange(T, L) made within those 30 minutes returns T without a call
\* to the endpoint.
C17_MissingFieldCachesBearer ==
    [][/\ \A p \in Requests :
            (req[p].pc = "get-token" /\ GetTokenAnswer(p, Ok200(Dict(EmptyDict))))
            => (/\ Completed("get_location_token")'
                /\ last'.ret = Str(req[p].tok)
                /\ location_token_cache'[req[p].mgr][CacheKey(req[p].tok, req[p].loc)]
                     = [token |-> Str(req[p].tok),
                        expires_at |-> isoformat(now + LocationCacheMinutes)])
       /\ Started =>
          \A p \in Requests, m \in Managers, pair \in AllPairs :
            (/\ CallExchange(p, m, pair[1], pair[2])
             /\ pair \in DOMAIN exchanged[m]
             /\ exchanged[m][pair].token = Str(pair[1])
             /\ now < exchanged[m][pair].at + LocationCacheMinutes)
            => (/\ Completed("get_location_token")'
                /\ last'.net = 0
                /\ last'.ret = Str(pair[1]))]_vars

\* the last completed exchange of the pair on instance m fell back
FellBack(m, pair) ==
    pair \in DOMAIN fell_back[m] /\ fell_back[m][pair] = "fell back"

\* C18 (as claimed): the exchange(T, L) that follows an exchange(T, L) which
\* fell back always posts to the exchange endpoint anew.
C18_NextExchangeAlwaysRetries ==
    [][Started =>
       \A p \in Requests, m \in Managers, pair \in AllPairs :
         (FellBack(m, pair) /\ CallExchange(p, m, pair[1], pair[2]))
         => (req'[p].pc = "get-token" /\ req'[p].net = 1)]_vars

\* C18 (amended): a fallback is never what stops a later exchange: the
\* exchange(T, L) that follows a fallback of exchange(T, L) posts anew
\* unless the cache holds an unexpired entry under the key of (T, L), which
\* a 200 answer to another exchange has written; and when its post is
\* answered 200 with an access_token string, it returns that string and
\* caches it.
C18_FallbackNotPermanent ==
    [][/\ Started =>
          \A p \in Requests, m \in Managers, pair \in AllPairs :
            (FellBack(m, pair) /\ CallExchange(p, m, pair[1], pair[2]))
            => \/ req'[p].pc = "get-token" /\ req'[p].net = 1
               \/ /\ LocationCacheHit(location_token_cache[m],
                                      CacheKey(pair[1], pair[2]), now)
                  /\ CacheKey(pair[1], pair[2]) \in DOMAIN key_writer[m]
                  /\ last'.ret = location_token_cache[m][CacheKey(pair[1], pair[2])].token
       /\ \A p \in Requests :
            (req[p].pc = "get-token" /\ FellBack(req[p].mgr, <<req[p].tok, req[p].loc>>))
            => \A s \in ScopedTokens :
                 GetTokenAnswer(p, Ok200(Dict([access_token |-> Str(s)])))
                 => (/\ Completed("get_location_token")'
                     /\ last'.ret = Str(s)
                     /\ LocationCacheHit(location_token_cache'[req[p].mgr],
                                         CacheKey(req[p].tok, req[p].loc), now))]_vars

\* an exchange that followed a fallback of the same pair has posted anew and
\* returned the scoped token of the answer
C18_Witness ==
    /\ Completed("get_location_token")
    /\ last.net = 1
    /\ last.ret \in {Str(s) : s \in ScopedTokens}
    /\ <<last.tok, last.loc>> \in DOMAIN fell_back[last.mgr]
    /\ fell_back[last.mgr][<<last.tok, last.loc>>] = "recovered"

\* C19 (as claimed): the exchange made for a tool call exchanges the bearer
\* token of that tool call: get_ghl_client never hands the request a client
\* that holds another caller's token.
C19_ClientBoundToCallersToken ==
    /\ (Completed("get_location_token") /\ last.presented # "")
       => last.tok = last.presented
    /\ \A p \in Requests :
         (req[p].pc = "get-token" /\ req[p].presented # "")
         => req[p].tok = req[p].presented

\* C20: the entry a validate returns expires strictly after the time of the
\* return; a validate that finds an entry whose expires_at has been reached
\* does not return it but calls the identity endpoint, and on a 200 answer
\* the cache entry is the fresh payload with the expiry now + 5 minutes.
C20_ReturnedEntryNotExpired ==
    Completed("validate_bearer_token")
    => (/\ last.exc = NoException
           => (/\ last.ret[1] = "dict"
               /\ fromisoformat(last.ret[2]["expires_at"]) > now)
        /\ last.expired => last.net = 1
        /\ (last.exc = NoException /\ last.net = 1)
           => (/\ last.resp.status_code = 200
               /\ last.ret = Dict(DictSet(last.resp.json[2], "expires_at",
                                           isoformat(now + TokenCacheMinutes)))
               /\ Dict(token_cache[last.mgr][last.tok]) = last.ret))

\* a validate that found an expired entry, called the endpoint and returned
\* the fresh payload
C20_Witness ==
    /\ Completed("validate_bearer_token")
    /\ last.expired
    /\ last.net = 1
    /\ last.exc = NoException
    /\ fromisoformat(last.ret[2]["expires_at"]) = now + TokenCacheMinutes

\* C21: whenever validate(T) returns successfully at time t, the identity
\* endpoint answered 200 for T at a time in (t - 5 minutes, t].
C21_BoundedStaleness ==
    (Completed("validate_bearer_token") /\ last.exc = NoException)
    => (/\ last.tok \in DOMAIN validated[last.mgr]
        /\ now - TokenCacheMinutes < validated[last.mgr][last.tok].at
        /\ validated[last.mgr][last.tok].at <= now)

\* a validate accepted on the strength of an answer given a minute earlier
C21_Witness ==
    /\ Completed("validate_bearer_token")
    /\ last.exc = NoException
    /\ last.resp = NoResponse
    /\ last.tok \in DOMAIN validated[last.mgr]
    /\ validated[last.mgr][last.tok].at = now - 1

\* another coroutine than p is suspended on the POST `pc` for the same
\* instance, token and location
OtherInFlight(p, pc, m, tok, loc) ==
    \E q \in Requests \ {p} :
       /\ req[q].pc = pc /\ req[q].mgr = m
       /\ req[q].tok = tok /\ req[q].loc = loc

\* C22: calls for the same key that are in flight at once are not merged:
\* a validate(T) or exchange(T, L) that finds no valid entry posts on its
\* own although another call for the key is in flight, and whenever one of
\* them is answered 200 the entry of the key becomes what that call alone
\* would have written from its answer, whatever the cache held before; no
\* other key changes.
C22_ConcurrentSameKey ==
    [][/\ Started =>
          \A p \in Requests, m \in Managers :
            /\ \A tok \in Tokens :
                 (/\ OtherInFlight(p, "oauth-test", m, tok, "")
                  /\ ~TokenCacheHit(token_cache[m], tok, now)
                  /\ CallValidate(p, m, tok))
                 => (req'[p].pc = "oauth-test" /\ req'[p].net = 1)
            /\ \A pair \in AllPairs :
                 (/\ OtherInFlight(p, "get-token", m, pair[1], pair[2])
                  /\ ~LocationCacheHit(location_token_cache[m],
                                       CacheKey(pair[1], pair[2]), now)
                  /\ CallExchange(p, m, pair[1], pair[2]))
                 => (req'[p].pc = "get-token" /\ req'[p].net = 1)
       /\ \A p \in Requests :
            /\ req[p].pc = "oauth-test" =>
               \A payload \in Payloads :
                  OauthTestAnswer(p, Ok200(Dict(payload)))
                  => token_cache' =
                       [token_cache EXCEPT ![req[p].mgr] =
                          DictSet(@, req[p].tok,
                                  DictSet(payload, "expires_at",
                                          isoformat(now + TokenCacheMinutes)))]
            /\ req[p].pc = "get-token" =>
               \A s \in ScopedTokens :
                  GetTokenAnswer(p, Ok200(Dict([access_token |-> Str(s)])))
                  => location_token_cache' =
                       [location_token_cache EXCEPT ![req[p].mgr] =
                          DictSet(@, CacheKey(req[p].tok, req[p].loc),
                                  [token |-> Str(s),
                                   expires_at |->
                                      isoformat(now + LocationCacheMinutes)])]]_vars

\* two validate calls for one token were in flight at once; one has just
\* written the entry, the other, which began with no entry, is still waiting
C22_Witness ==
    /\ Completed("validate_bearer_token")
    /\ last.net = 1 /\ last.exc = NoException
    /\ \E p \in Requests :
          /\ req[p].pc = "oauth-test" /\ req[p].op = "validate_bearer_token"
          /\ req[p].tok = last.tok /\ req[p].mgr = last.mgr
          /\ req[p].net = 1 /\ ~req[p].expired
          /\ last.tok \in DOMAIN token_cache[last.mgr]


\* C23: each cache is one mapping shared by the entry points: an entry that
\* is a hit for a key through one of token_manager, auth_middleware and
\* mcp_auth is a hit for that key through each of the others.
C23_EntryHitsThroughEveryEntryPoint ==
    \A m1 \in Managers, m2 \in Managers :
       /\ \A tok \in Tokens :
             TokenCacheHit(token_cache[m1], tok, now)
             => TokenCacheHit(token_cache[m2], tok, now)
       /\ \A pair \in AllPairs :
             LocationCacheHit(location_token_cache[m1],
                              CacheKey(pair[1], pair[2]), now)
             => LocationCacheHit(location_token_cache[m2],
                                 CacheKey(pair[1], pair[2]), now)


\* the cache without the entries of the other tokens
OwnEntry(cache, token) == [k \in DOMAIN cache \cap {token} |-> cache[k]]

\* C24: validate(T1) neither reads nor changes the entry of another token
\* T2: a step of a validate(T1) call leaves the entry of every T2 # T1 as it
\* was (there or not there), and what the call does (hit or POST, value
\* returned, exception raised) is what it would do if the cache held no
\* entry but that of T1.
C24_TokensIndependent ==
    [][/\ Started =>
          \A p \in Requests, m \in Managers, tok \in Tokens :
             CallValidate(p, m, tok)
             => Continue(p, StartValidate(
                     NewRequest("validate_bearer_token", m, tok, "", "param"),
                     OwnEntry(token_cache[m], tok), now))
       /\ \A p \in Requests :
            (req[p].pc = "oauth-test" /\ req[p].op = "validate_bearer_token") =>
            \A answer \in OauthTestAnswers(req[p].tok, idp_valid) :
               OauthTestAnswer(p, answer)
               => LET m == req[p].mgr
                      alone == ValidateOnAnswer(OwnEntry(token_cache[m], req[p].tok),
                                                req[p].tok, answer, now)
                  IN  /\ last'.ret = alone.ret /\ last'.exc = alone.exc
                      /\ \A t2 \in Tokens \ {req[p].tok} :
                           /\ t2 \in DOMAIN token_cache'[m]
                                <=> t2 \in DOMAIN token_cache[m]
                           /\ t2 \in DOMAIN token_cache[m]
                                => token_cache'[m][t2] = token_cache[m][t2]]_vars

\* a validate call for one token has just been answered 200 while the cache
\* holds the entry of another token and a call for that other token is
\* in flight
C24_Witness ==
    /\ Completed("validate_bearer_token")
    /\ last.net = 1 /\ last.exc = NoException
    /\ \E p \in Requests :
          /\ req[p].pc = "oauth-test" /\ req[p].op = "validate_bearer_token"
          /\ req[p].tok # last.tok /\ req[p].mgr = last.mgr
          /\ req[p].tok \in DOMAIN token_cache[last.mgr]
          /\ last.tok \in DOMAIN token_cache[last.mgr]


\* C25: a validation that fails, by an answer other than 200 or by a network
\* error, raises and leaves the validation cache and the location-token
\* cache exactly as they were.
C25_FailedValidateWritesNothing ==
    [][\A p \in Requests :
         req[p].pc = "oauth-test" =>
         \A answer \in {RequestError} \cup ErrorAnswers :
            OauthTestAnswer(p, answer)
            => /\ last'.exc # NoException
               /\ UNCHANGED <<token_cache, location_token_cache>>]_vars

\* a validate call that found a stale entry has just been rejected, and the
\* stale entry is still there
C25_Witness ==
    /\ Completed("validate_bearer_token")
    /\ last.expired
    /\ last.resp \in ErrorAnswers
    /\ last.exc.type = "HTTPException"
    /\ ExpiredEntry(token_cache[last.mgr], last.tok, now)


\* C26: no step removes a key from the validation cache or from the
\* location-token cache of an instance (so every key that was ever there
\* is still there), and an entry that changes does so in the step that
\* processes a 200 answer for its own key.
C26_NoEntryDeleted ==
    [][\A m \in Managers :
         /\ DOMAIN token_cache[m] \subseteq DOMAIN token_cache'[m]
         /\ DOMAIN location_token_cache[m] \subseteq DOMAIN location_token_cache'[m]
         /\ \A k \in DOMAIN token_cache[m] :
              token_cache'[m][k] # token_cache[m][k]
              => \E p \in Requests :
                    /\ req[p].pc = "oauth-test" /\ req[p].mgr = m /\ req[p].tok = k
                    /\ \E payload \in Payloads : OauthTestAnswer(p, Ok200(Dict(payload)))
         /\ \A k \in DOMAIN location_token_cache[m] :
              location_token_cache'[m][k] # location_token_cache[m][k]
              => \E p \in Requests :
                    /\ req[p].pc = "get-token" /\ req[p].mgr = m
                    /\ CacheKey(req[p].tok, req[p].loc) = k
                    /\ \E answer \in GetTokenAnswers :
                          answer.status_code = 200 /\ GetTokenAnswer(p, answer)]_vars

\* an entry that expired more than a full lifetime ago is still in the cache
\* after a call for its token was rejected
C26_Witness ==
    /\ Completed("validate_bearer_token")
    /\ last.exc # NoException
    /\ last.tok \in DOMAIN token_cache[last.mgr]
    /\ fromisoformat(token_cache[last.mgr][last.tok]["expires_at"])
          + TokenCacheMinutes < now


\* C27: an authenticate call whose validation went to the identity endpoint
\* and was answered 200 with a JSON object has made exactly one POST: the
\* validation inside get_location_from_token was served from the entry the
\* first validation had just written, and the call raised nothing.
C27_OneValidationPostPerAuthenticate ==
    (/\ last.pc = "done" /\ last.op \in AuthOps
     /\ last.resp.status_code = 200 /\ last.resp.json[1] = "dict")
    => (last.net = 1 /\ last.stage = 1 /\ last.exc = NoException)

C27_Witness ==
    /\ Completed("HTTPAuthMiddleware")
    /\ last.resp.status_code = 200 /\ last.resp.json[1] = "dict"
    /\ last.net = 1
    /\ last.ret = TestLocationId
    /\ TokenCacheHit(token_cache[last.mgr], last.tok, now)


\* C28: in no step does the expires_at of a key of the validation cache or
\* of the location-token cache become earlier than it was.
C28_ExpiryNeverShortened ==
    [][\A m \in Managers :
         /\ \A k \in DOMAIN token_cache[m] :
              k \in DOMAIN token_cache'[m]
              => fromisoformat(token_cache'[m][k]["expires_at"])
                    >= fromisoformat(token_cache[m][k]["expires_at"])
         /\ \A k \in DOMAIN location_token_cache[m] :
              k \in DOMAIN location_token_cache'[m]
              => fromisoformat(location_token_cache'[m][k]["expires_at"])
                    >= fromisoformat(location_token_cache[m][k]["expires_at"])]_vars

\* two calls for a token whose entry had expired were in flight at once; one
\* has just overwritten the entry, the other is still to overwrite it
C28_Witness ==
    /\ Completed("validate_bearer_token")
    /\ last.expired /\ last.net = 1 /\ last.exc = NoException
    /\ fromisoformat(token_cache[last.mgr][last.tok]["expires_at"])
          = now + TokenCacheMinutes
    /\ \E p \in Requests :
          /\ req[p].pc = "oauth-test" /\ req[p].expired
          /\ req[p].tok = last.tok /\ req[p].mgr = last.mgr


\* the response is a JSON-RPC 2.0 object that carries the id of the message
\* and exactly one of result and error
WellFormedResponse ==
    /\ handled.raised = NoException
    /\ handled.response.jsonrpc = "2.0"
    /\ handled.response.id = Get(handled.message, "id")
    /\ ("result" \in DOMAIN handled.response) # ("error" \in DOMAIN handled.response)

\* the tool function was awaited and left by an exception that does not
\* derive from Exception
ToolCancelled ==
    handled.outcome.kind = "raises" /\ ~IsException(handled.outcome.exc)

\* C29 (as stated): process_message never raises; for every message and
\* every outcome of the invoked tool it returns a JSON-RPC 2.0 object with the
\* id of the message and exactly one of result and error.
C29_NeverRaises == handled.processed => WellFormedResponse

\* C29 (amended): process_message raises only what left the tool function
\* without deriving from Exception (the cancellation of the task), and raises
\* that unchanged; in every other case it returns a JSON-RPC 2.0 object with
\* the id of the message and exactly one of result and error.
C29_RaisesOnlyOnCancellation ==
    handled.processed =>
       IF ToolCancelled
       THEN handled.raised = handled.outcome.exc /\ handled.invoked = 1
       ELSE WellFormedResponse

\* a tools/call whose params is an array is answered by an error that
\* carries the id of the message
C29_Witness ==
    /\ handled.processed
    /\ handled.message = Message(Str("tools/call"), NonObject, Str("abc"))
    /\ handled.raised = NoException
    /\ handled.response.id = Str("abc")
    /\ "error" \in DOMAIN handled.response

\* the message has a method that is none of the three the handler knows
UnknownMethod ==
    Get(handled.message, "method")
       \notin {Str("initialize"), Str("tools/list"), Str("tools/call")}

\* the message is a tools/call that names a tool the registry does not have
UnregisteredTool ==
    /\ Get(handled.message, "method") = Str("tools/call")
    /\ "params" \in DOMAIN handled.message
    /\ handled.message["params"][1] = "dict"
    /\ "name" \in DOMAIN handled.message["params"][2]
    /\ handled.message["params"][2]["name"][2] \notin RegisteredTools

TopLevelInternalError ==
    /\ handled.raised = NoException
    /\ "error" \in DOMAIN handled.response
    /\ handled.response.error.code = InternalError
    /\ handled.invoked = 0

ToolErrorInResult ==
    /\ handled.raised = NoException
    /\ "result" \in DOMAIN handled.response
    /\ "error" \notin DOMAIN handled.response
    /\ "error" \in DOMAIN handled.response.result[2]
    /\ handled.response.result[2].error.code = "TOOL_ERROR"
    /\ handled.invoked = 1

\* C30 (as stated): an unknown method and a tools/call for an unregistered
\* tool give a top-level error with code -32603 and invoke no tool function;
\* an exception raised while a registered tool executes gives a top-level
\* result whose body carries an error with code TOOL_ERROR.
C30_ErrorClassification ==
    handled.processed =>
       /\ (UnknownMethod \/ UnregisteredTool) => TopLevelInternalError
       /\ handled.outcome.kind = "raises" => ToolErrorInResult

\* C30 (amended): as stated for the exceptions that derive from Exception;
\* one that does not leaves process_message as it is, with no response.
C30_ErrorClassificationOfExceptions ==
    handled.processed =>
       /\ (UnknownMethod \/ UnregisteredTool) => TopLevelInternalError
       /\ handled.outcome.kind = "raises" =>
             IF IsException(handled.outcome.exc) THEN ToolErrorInResult
             ELSE handled.raised = handled.outcome.exc /\ handled.response = None

\* get_contact was called without contact_id: the KeyError is reported in
\* the body of the result
C30_Witness ==
    /\ handled.processed
    /\ handled.outcome.kind = "raises"
    /\ handled.outcome.exc.type = "KeyError"
    /\ ToolErrorInResult
    /\ handled.response.result[2].error.message = "'contact_id'"

====
